---- MODULE Spec2Model ----
(***************************************************************************)
(* A model of script.py: CIDEmailSender (construction from the             *)
(* environment, create_email_message, send_email, send_bulk_emails) and    *)
(* main.  The program is sequential; the nondeterminism is the             *)
(* environment's: which files exist and what the SMTP server answers.      *)
(*                                                                         *)
(* Text the program transforms (template, name, role, subject, HTML body)  *)
(* is a sequence of one-character strings, so that str.replace is          *)
(* computed as Python computes it.  Addresses and paths are only compared  *)
(* and copied by the program and are TLA+ strings.                         *)
(***************************************************************************)
EXTENDS Integers, Sequences, FiniteSets, TLC

\* ------------------------------------------------------------------ bounds
MaxRecipients == 3
MaxImages == 1
MaxPieces == 3

\* -------------------------------------------------------- program constants
\* os.getenv("SMTP_PORT", "587") and os.getenv("SMTP_SERVER", "smtp.gmail.com")
DefaultPort == "587"
DefaultServer == "smtp.gmail.com"

\* the placeholders of lines 59 and 60
NameToken == <<"{", "{", "n", "a", "m", "e", "}", "}">>
RoleToken == <<"{", "{", "r", "o", "l", "e", "}", "}">>

\* the two halves of the f-string of line 52
SubjectPrefix == <<"W", "e", "l", "c", "o", "m", "e", " ">>
SubjectSuffix ==
    <<" ", "t", "o", " ", "T", "i", "n", "k", "e", "r", "i", "n", "g", " ",
      "L", "a", "b", "!">>

\* ------------------------------------------------------------ environment
\* An environment variable: unset (os.getenv gives None) or set to a string.
Unset == [set |-> FALSE, val |-> ""]
SetTo(s) == [set |-> TRUE, val |-> s]

\* os.getenv(key, default)
Getenv(e, key, default) == IF e[key].set THEN e[key] ELSE SetTo(default)

\* Python truthiness of what os.getenv(key) returns: None and "" are falsy.
Truthy(v) == v.set /\ v.val # ""

\* int(s) for the port strings of the model: the decimal literals convert,
\* anything else raises ValueError.
IntParses(s) == s \in {"587", "2525"}
IntOf(s) == IF s = "587" THEN 587 ELSE 2525

EnvSenders == {Unset, SetTo(""), SetTo("lab@x.com")}
EnvPasswords == {Unset, SetTo(""), SetTo("secret")}
EnvPorts == {Unset, SetTo("2525"), SetTo("abc")}

Envs ==
    [EMAIL_SENDER : EnvSenders, EMAIL_PASSWORD : EnvPasswords,
     SMTP_SERVER : {Unset}, SMTP_PORT : EnvPorts]

\* ------------------------------------------------------------------ inputs
Ada == <<"A", "d", "a">>
Bob == <<"B", "o", "b">>
Engineer == <<"E", "n", "g">>
Admin == <<"A", "d", "m">>

\* Recipients of the data model: every one has name, role and email.  Two
\* of them carry the same address.
RecipientPool ==
    { [name |-> Ada, role |-> Engineer, email |-> "ada@x.com"],
      [name |-> Bob, role |-> Admin, email |-> "bob@x.com"],
      [name |-> RoleToken, role |-> Admin, email |-> "ada@x.com"] }

SeqsUpTo(S, n) == UNION { [1..k -> S] : k \in 0..n }

RecipientLists == SeqsUpTo(RecipientPool, MaxRecipients)

\* The file a path names: it is there and readable ("ok"), it is not there
\* ("missing": open raises FileNotFoundError), it cannot be read ("denied":
\* open raises PermissionError), or, for an image, its bytes are no image
\* MIMEImage recognises ("corrupt": MIMEImage raises TypeError).
TemplateStatuses == {"ok", "missing", "denied"}
ImageStatuses == {"ok", "missing", "corrupt"}

ImageIds == <<"logo", "bfd", "website2x", "instagram2x">>

\* The images dictionary in insertion order: the k-th entry has the k-th id.
ImageMaps ==
    { [k \in 1..Len(st) |-> [id |-> ImageIds[k], status |-> st[k]]] :
        st \in SeqsUpTo(ImageStatuses, MaxImages) }

Hello == <<"H", "i", " ">>

\* template texts of the mailer runs
MainTemplates == { Hello \o NameToken \o <<",">> \o RoleToken, Hello }

\* ------------------------------------------------------------------- state
VARIABLES
    env,          \* the process environment after load_dotenv
    recipients,   \* the list handed to send_bulk_emails
    template,     \* the file at template_path: [status, text]
    images,       \* the images dictionary, with the state of each file
    main_pc,      \* main's position
    sender,       \* the CIDEmailSender object
    i,            \* send_bulk_emails: index of the loop's current recipient
    results,      \* send_bulk_emails: the results dictionary
    pc,           \* send_email's position
    msg,          \* send_email: the message built
    server,       \* send_email: the smtplib.SMTP object of the with block
    open_conns,   \* the SMTP connections (sockets) open, by number
    n_conns,      \* how many connections were ever opened
    exc,          \* the exception in flight, "None" when there is none
    ret,          \* the value send_email returned last
    log,          \* the last record the logger emitted
    attempts,     \* history: the indices send_email was called for, in order
    steps,        \* history: the steps of the current send_email call
    transmitted   \* history: send_message completed in the current call

vars ==
    <<env, recipients, template, images, main_pc, sender, i, results, pc, msg,
      server, open_conns, n_conns, exc, ret, log, attempts, steps, transmitted>>

NoSender == [constructed |-> FALSE]
NoMsg == [built |-> FALSE]
NoServer == [connected |-> FALSE]
NoLog == [level |-> "NONE", text |-> ""]

Log(level, text) == [level |-> level, text |-> text]

\* --------------------------------------------------- CIDEmailSender.__init__
\* line 31: all([self.sender_email, self.sender_password])
SenderOnlyComplete(sender_email, sender_password) == Truthy(sender_email)

ConfigComplete(sender_email, sender_password) ==
    Truthy(sender_email) /\ Truthy(sender_password)

\* lines 25-35: the object constructed, or the ValueError raised by int() on
\* line 26 or by the validation of lines 31-32.
NewSender(e) ==
    LET port == Getenv(e, "SMTP_PORT", DefaultPort).val
    IN  IF ~IntParses(port) THEN [raised |-> "ValueError", obj |-> NoSender]
        ELSE IF ~ConfigComplete(e.EMAIL_SENDER, e.EMAIL_PASSWORD)
        THEN [raised |-> "ValueError", obj |-> NoSender]
        ELSE [raised |-> "None",
              obj |-> [constructed |-> TRUE,
                       smtp_server |-> Getenv(e, "SMTP_SERVER", DefaultServer).val,
                       smtp_port |-> IntOf(port),
                       sender_email |-> e.EMAIL_SENDER.val,
                       sender_password |-> e.EMAIL_PASSWORD.val]]

\* ------------------------------------------------------ create_email_message
\* str.replace(old, new) for a non-empty old: the occurrences of old are
\* found from the left, without overlap, and each gives way to new.
RECURSIVE Replace(_, _, _)
Replace(s, old, new) ==
    IF Len(s) < Len(old) THEN s
    ELSE IF SubSeq(s, 1, Len(old)) = old
    THEN new \o Replace(SubSeq(s, Len(old) + 1, Len(s)), old, new)
    ELSE <<Head(s)>> \o Replace(Tail(s), old, new)

\* lines 59-60: first every {{name}}, then every {{role}} of the result
Personalize(text, recipient) ==
    Replace(Replace(text, NameToken, recipient.name), RoleToken, recipient.role)

\* what open(...) / MIMEImage(...) raise for a file in the state st
FileError(st) ==
    CASE st = "missing" -> "FileNotFoundError"
      [] st = "denied" -> "PermissionError"
      [] st = "corrupt" -> "TypeError"
      [] OTHER -> "None"

\* lines 67-71: the loop over images.items() stops at the first file that
\* cannot be attached; 0 when every one can.
FirstBadImage(imgs) ==
    IF \E k \in 1..Len(imgs) : imgs[k].status # "ok"
    THEN CHOOSE k \in 1..Len(imgs) :
            /\ imgs[k].status # "ok"
            /\ \A j \in 1..(k - 1) : imgs[j].status = "ok"
    ELSE 0

\* lines 73-78: the two handlers; both log and re-raise
BuildErrorLog(e) ==
    IF e = "FileNotFoundError"
    THEN Log("ERROR", "Template file not found")
    ELSE Log("ERROR", "Error creating email message")

\* line 70: img.add_header('Content-ID', f'<{image_id}>')
ContentId(image_id) == <<"<", image_id, ">">>

\* lines 49-80.  The result: the exception raised ("None" when the message
\* is returned), the record logged (NoLog when nothing is), the message.
CreateEmailMessage(snd, recipient, tmpl, imgs) ==
    LET subject == SubjectPrefix \o recipient.name \o SubjectSuffix
        bad == FirstBadImage(imgs)
        raised == IF tmpl.status # "ok" THEN FileError(tmpl.status)
                  ELSE IF bad # 0 THEN FileError(imgs[bad].status)
                  ELSE "None"
    IN  IF raised # "None"
        THEN [raised |-> raised, log |-> BuildErrorLog(raised), msg |-> NoMsg]
        ELSE [raised |-> "None", log |-> NoLog,
              msg |-> [built |-> TRUE,
                       From |-> snd.sender_email,
                       To |-> recipient.email,
                       Subject |-> subject,
                       html |-> Personalize(tmpl.text, recipient),
                       cids |-> [k \in 1..Len(imgs) |-> ContentId(imgs[k].id)]]]

\* ---------------------------------------------------------------- send_email
\* lines 97-100: where control goes after a step of the with block.  A step
\* that raises leaves the block, through the SMTP object's __exit__.
IgnoreFailure(step, ok) ==
    CASE step = "starttls" -> "login"
      [] step = "login" -> "send"
      [] OTHER -> "exit"

WithBodyNext(step, ok) ==
    IF ~ok THEN "exit"
    ELSE CASE step = "starttls" -> "login"
           [] step = "login" -> "send"
           [] OTHER -> "exit"

\* line 97, leaving the with block: smtplib.SMTP.__exit__ closes the socket
\* in a finally clause, whether or not an exception is in flight.
LeakOnError(conns, id, pending) == IF pending = "None" THEN conns \ {id} ELSE conns

CloseConn(conns, id, pending) == conns \ {id}

\* line 105: except Exception.  Every exception of the model is one.
Exceptions ==
    {"FileNotFoundError", "PermissionError", "TypeError", "OSError",
     "SMTPNotSupportedError", "SMTPAuthenticationError", "SMTPDataError",
     "SMTPResponseException"}

CatchesSMTPOnly(e) ==
    e \in {"SMTPNotSupportedError", "SMTPAuthenticationError", "SMTPDataError",
            "SMTPResponseException"}

Catches(e) == e \in Exceptions

\* ----------------------------------------------------------- send_bulk_emails
\* lines 127-130
AlwaysAppendFailed(res, ok, rcpts, idx) ==
    [success |-> IF ok THEN Append(res.success, rcpts[idx].email) ELSE res.success,
     failed |-> Append(res.failed, rcpts[idx].email)]

AppendFirstEmail(res, ok, rcpts, idx) ==
    IF ok THEN [res EXCEPT !.success = Append(@, rcpts[1].email)]
    ELSE [res EXCEPT !.failed = Append(@, rcpts[1].email)]

RecordResult(res, ok, rcpts, idx) ==
    IF ok THEN [res EXCEPT !.success = Append(@, rcpts[idx].email)]
    ELSE [res EXCEPT !.failed = Append(@, rcpts[idx].email)]

\* line 126: the for loop goes on to the next recipient whatever the outcome
BreakOnFailure(idx, ok, n) == IF ok THEN idx + 1 ELSE n + 1

NextIndex(idx, ok, n) == idx + 1

\* ------------------------------------------------------------------ actions
Init ==
    /\ env \in Envs
    /\ recipients \in RecipientLists
    /\ template \in [status : TemplateStatuses, text : MainTemplates]
    /\ images \in ImageMaps
    /\ main_pc = "start"
    /\ sender = NoSender
    /\ i = 0
    /\ results = [success |-> <<>>, failed |-> <<>>]
    /\ pc = "idle"
    /\ msg = NoMsg
    /\ server = NoServer
    /\ open_conns = {}
    /\ n_conns = 0
    /\ exc = "None"
    /\ ret = FALSE
    /\ log = NoLog
    /\ attempts = <<>>
    /\ steps = <<>>
    /\ transmitted = FALSE

\* main, lines 153-154 and 161-162: sender = CIDEmailSender(); a ValueError
\* of the constructor is logged by main's handler and main ends.
Main_Construct ==
    /\ main_pc = "start"
    /\ LET r == NewSender(env)
       IN  IF r.raised = "None"
           THEN /\ sender' = r.obj
                /\ main_pc' = "call_bulk"
                /\ log' = log
           ELSE /\ sender' = NoSender
                /\ main_pc' = "failed"
                /\ log' = Log("ERROR", "Application error")
    /\ UNCHANGED <<env, recipients, template, images, i, results, pc, msg, server,
                   open_conns, n_conns, exc, ret, attempts, steps, transmitted>>

\* lines 155 and 121-124: send_bulk_emails is entered, results is empty
SendBulk_Enter ==
    /\ main_pc = "call_bulk"
    /\ results' = [success |-> <<>>, failed |-> <<>>]
    /\ i' = 1
    /\ main_pc' = "bulk"
    /\ UNCHANGED <<env, recipients, template, images, sender, pc, msg, server,
                   open_conns, n_conns, exc, ret, log, attempts, steps, transmitted>>

\* lines 126-127: the loop takes the next recipient and calls send_email
SendBulk_Call ==
    /\ main_pc = "bulk"
    /\ pc = "idle"
    /\ i <= Len(recipients)
    /\ pc' = "build"
    /\ msg' = NoMsg
    /\ exc' = "None"
    /\ attempts' = Append(attempts, i)
    /\ steps' = <<>>
    /\ transmitted' = FALSE
    /\ UNCHANGED <<env, recipients, template, images, main_pc, sender, i, results,
                   server, open_conns, n_conns, ret, log>>

\* line 95: msg = self.create_email_message(...)
SendEmail_Build ==
    /\ pc = "build"
    /\ LET r == CreateEmailMessage(sender, recipients[i], template, images)
       IN  /\ steps' = Append(steps, [step |-> "build", ok |-> r.raised = "None"])
           /\ IF r.raised = "None"
              THEN /\ msg' = r.msg
                   /\ pc' = "connect"
                   /\ UNCHANGED <<exc, log>>
              ELSE /\ msg' = NoMsg
                   /\ pc' = "except"
                   /\ exc' = r.raised
                   /\ log' = r.log
    /\ UNCHANGED <<env, recipients, template, images, main_pc, sender, i, results,
                   server, open_conns, n_conns, ret, attempts, transmitted>>

\* line 97: smtplib.SMTP(host, port) connects; when it raises, no socket is
\* left open and the with block is not entered.
SendEmail_Connect ==
    /\ pc = "connect"
    /\ \E ok \in BOOLEAN :
        /\ steps' = Append(steps, [step |-> "connect", ok |-> ok])
        /\ IF ok
           THEN /\ n_conns' = n_conns + 1
                /\ open_conns' = open_conns \cup {n_conns + 1}
                /\ server' = [connected |-> TRUE, id |-> n_conns + 1,
                              tls |-> FALSE, auth |-> FALSE]
                /\ pc' = "starttls"
                /\ exc' = exc
           ELSE /\ pc' = "except"
                /\ exc' = "OSError"
                /\ UNCHANGED <<n_conns, open_conns, server>>
    /\ UNCHANGED <<env, recipients, template, images, main_pc, sender, i, results,
                   msg, ret, log, attempts, transmitted>>

\* line 98: server.starttls(context=self.ssl_context)
SendEmail_StartTLS ==
    /\ pc = "starttls"
    /\ \E ok \in BOOLEAN :
        /\ steps' = Append(steps, [step |-> "starttls", ok |-> ok])
        /\ server' = [server EXCEPT !.tls = ok]
        /\ exc' = IF ok THEN exc ELSE "SMTPNotSupportedError"
        /\ pc' = WithBodyNext("starttls", ok)
    /\ UNCHANGED <<env, recipients, template, images, main_pc, sender, i, results,
                   msg, open_conns, n_conns, ret, log, attempts, transmitted>>

\* line 99: server.login(self.sender_email, self.sender_password)
SendEmail_Login ==
    /\ pc = "login"
    /\ \E ok \in BOOLEAN :
        /\ steps' = Append(steps, [step |-> "login", ok |-> ok])
        /\ server' = [server EXCEPT !.auth = ok]
        /\ exc' = IF ok THEN exc ELSE "SMTPAuthenticationError"
        /\ pc' = WithBodyNext("login", ok)
    /\ UNCHANGED <<env, recipients, template, images, main_pc, sender, i, results,
                   msg, open_conns, n_conns, ret, log, attempts, transmitted>>

\* line 100: server.send_message(msg)
SendEmail_SendMessage ==
    /\ pc = "send"
    /\ \E ok \in BOOLEAN :
        /\ steps' = Append(steps, [step |-> "send", ok |-> ok])
        /\ transmitted' = ok
        /\ exc' = IF ok THEN exc ELSE "SMTPDataError"
        /\ pc' = WithBodyNext("send", ok)
    /\ UNCHANGED <<env, recipients, template, images, main_pc, sender, i, results,
                   msg, server, open_conns, n_conns, ret, log, attempts>>

\* line 97, the end of the with block: SMTP.__exit__ sends QUIT, raises
\* SMTPResponseException when the answer is not 221 (a server that has gone
\* away is tolerated), and closes the socket in its finally clause.  An
\* exception raised here replaces the one in flight.
SendEmail_Exit ==
    /\ pc = "exit"
    /\ \E quit_ok \in BOOLEAN :
        /\ steps' = Append(steps, [step |-> "quit", ok |-> quit_ok])
        /\ open_conns' = CloseConn(open_conns, server.id, exc)
        /\ server' = NoServer
        /\ exc' = IF quit_ok THEN exc ELSE "SMTPResponseException"
        /\ pc' = IF quit_ok /\ exc = "None" THEN "sent" ELSE "except"
    /\ UNCHANGED <<env, recipients, template, images, main_pc, sender, i, results,
                   msg, n_conns, ret, log, attempts, transmitted>>

\* lines 102-103
SendEmail_ReturnTrue ==
    /\ pc = "sent"
    /\ log' = Log("INFO", "Email sent successfully")
    /\ ret' = TRUE
    /\ pc' = "returned"
    /\ UNCHANGED <<env, recipients, template, images, main_pc, sender, i, results,
                   msg, server, open_conns, n_conns, exc, attempts, steps,
                   transmitted>>

\* lines 105-107: the handler logs and returns False.  An exception the
\* handler does not catch leaves send_email and send_bulk_emails and reaches
\* main's handler (lines 161-162).
SendEmail_Except ==
    /\ pc = "except"
    /\ IF Catches(exc)
       THEN /\ log' = Log("ERROR", "Failed to send email")
            /\ ret' = FALSE
            /\ exc' = "None"
            /\ pc' = "returned"
            /\ main_pc' = main_pc
       ELSE /\ log' = Log("ERROR", "Application error")
            /\ pc' = "raised"
            /\ main_pc' = "failed"
            /\ UNCHANGED <<ret, exc>>
    /\ UNCHANGED <<env, recipients, template, images, sender, i, results, msg,
                   server, open_conns, n_conns, attempts, steps, transmitted>>

\* lines 127-130, and the loop's advance
SendBulk_Record ==
    /\ main_pc = "bulk"
    /\ pc = "returned"
    /\ results' = RecordResult(results, ret, recipients, i)
    /\ i' = NextIndex(i, ret, Len(recipients))
    /\ pc' = "idle"
    /\ UNCHANGED <<env, recipients, template, images, main_pc, sender, msg, server,
                   open_conns, n_conns, exc, ret, log, attempts, steps, transmitted>>

\* line 132: return results
SendBulk_Return ==
    /\ main_pc = "bulk"
    /\ pc = "idle"
    /\ i > Len(recipients)
    /\ main_pc' = "report"
    /\ UNCHANGED <<env, recipients, template, images, sender, i, results, pc, msg,
                   server, open_conns, n_conns, exc, ret, log, attempts, steps,
                   transmitted>>

\* lines 157-159: the summary
Main_Report ==
    /\ main_pc = "report"
    /\ log' = IF results.failed # <<>>
              THEN Log("WARNING", "Failed to send emails to")
              ELSE Log("INFO", "Successfully sent emails to")
    /\ main_pc' = "done"
    /\ UNCHANGED <<env, recipients, template, images, sender, i, results, pc, msg,
                   server, open_conns, n_conns, exc, ret, attempts, steps,
                   transmitted>>

Next ==
    \/ Main_Construct
    \/ SendBulk_Enter
    \/ SendBulk_Call
    \/ SendEmail_Build
    \/ SendEmail_Connect
    \/ SendEmail_StartTLS
    \/ SendEmail_Login
    \/ SendEmail_SendMessage
    \/ SendEmail_Exit
    \/ SendEmail_ReturnTrue
    \/ SendEmail_Except
    \/ SendBulk_Record
    \/ SendBulk_Return
    \/ Main_Report

Spec == Init /\ [][Next]_vars

\* -------------------------------------------------- the template, on its own
\* Texts put together from at most MaxPieces pieces: the placeholders, plain
\* text, and fragments of placeholders.
Pieces ==
    {NameToken, RoleToken, Hello, <<"{", "{">>, <<"l", "e", "}", "}">>, <<"{">>}

RECURSIVE Concat(_)
Concat(ss) == IF ss = <<>> THEN <<>> ELSE Head(ss) \o Concat(Tail(ss))

TemplateTexts == { Concat(ps) : ps \in SeqsUpTo(Pieces, MaxPieces) }

TemplateNames == {Ada, <<>>, RoleToken, <<"{", "{", "r", "o">>}
TemplateRoles == {Engineer, NameToken}

\* send_email has just been called for the only recipient of a one-entry
\* list, the template is readable and there are no images.
InitTemplate ==
    /\ env = [EMAIL_SENDER |-> SetTo("lab@x.com"), EMAIL_PASSWORD |-> SetTo("secret"),
              SMTP_SERVER |-> Unset, SMTP_PORT |-> Unset]
    /\ recipients \in
         [1..1 -> [name : TemplateNames, role : TemplateRoles, email : {"ada@x.com"}]]
    /\ template \in [status : {"ok"}, text : TemplateTexts]
    /\ images = <<>>
    /\ main_pc = "bulk"
    /\ sender = NewSender(env).obj
    /\ i = 1
    /\ results = [success |-> <<>>, failed |-> <<>>]
    /\ pc = "build"
    /\ msg = NoMsg
    /\ server = NoServer
    /\ open_conns = {}
    /\ n_conns = 0
    /\ exc = "None"
    /\ ret = FALSE
    /\ log = NoLog
    /\ attempts = <<1>>
    /\ steps = <<>>
    /\ transmitted = FALSE

NextTemplate == SendEmail_Build

SpecTemplate == InitTemplate /\ [][NextTemplate]_vars

\* ------------------------------------------------------------------- claims
Range(seq) == { seq[k] : k \in DOMAIN seq }
Count(seq, e) == Cardinality({ k \in DOMAIN seq : seq[k] = e })
Emails(rcpts, n) == [k \in 1..n |-> rcpts[k].email]

\* send_bulk_emails is between two recipients, or has returned
BetweenRecipients == main_pc = "bulk" /\ pc = "idle"
BulkReturned == main_pc \in {"report", "done"}

\* the step of the current send_email call that failed, if any
SomeStepFailed == \E k \in DOMAIN steps : ~steps[k].ok
Did(step, ok) == \E k \in DOMAIN steps : steps[k] = [step |-> step, ok |-> ok]

\* C1: whatever the recipients and the outcomes of the sends, the success
\* and failed lists send_bulk_emails returns have a combined length equal to
\* the number of recipients (and, between two recipients, to the number of
\* recipients dealt with so far).
C1_CombinedLength ==
    /\ BulkReturned =>
         Len(results.success) + Len(results.failed) = Len(recipients)
    /\ BetweenRecipients =>
         Len(results.success) + Len(results.failed) = i - 1

C1_Witness ==
    /\ main_pc = "report"
    /\ Len(recipients) >= 2
    /\ results.success # <<>>
    /\ results.failed # <<>>

\* C2 as stated: no address send_bulk_emails returns is in both the success
\* list and the failed list, also when two entries carry the same address.
C2_NoAddressInBoth ==
    BulkReturned => Range(results.success) \cap Range(results.failed) = {}

\* C2 as amended: every entry's address is appended to exactly one of the two
\* lists, so an address occurs in success and failed together as often as
\* entries carry it; an address is in both lists only when two or more
\* entries carry it, and never for a list of pairwise distinct addresses.
C2_EachEntryRecordedOnce ==
    (BulkReturned \/ BetweenRecipients) =>
        LET done == Emails(recipients, i - 1)
        IN  /\ \A e \in Range(Emails(recipients, Len(recipients))) :
                 Count(results.success, e) + Count(results.failed, e) = Count(done, e)
            /\ \A e \in Range(results.success) \cap Range(results.failed) :
                 Count(done, e) >= 2
            /\ Range(results.success) \cup Range(results.failed) = Range(done)

C2_Witness ==
    /\ main_pc = "report"
    /\ Range(results.success) \cap Range(results.failed) # {}

\* C3: whatever fault is raised while the message is built or during connect,
\* STARTTLS, login or transmission, send_email returns False and no exception
\* leaves it; with a template path that does not exist it returns False for
\* every recipient.
C3_FaultsReturnFalse ==
    /\ pc # "raised"
    /\ main_pc = "failed" => ~sender.constructed
    /\ (pc = "returned" /\ SomeStepFailed) => ~ret
    /\ (pc = "returned" /\ template.status = "missing") => ~ret
    /\ (BulkReturned /\ template.status = "missing") =>
         /\ results.success = <<>>
         /\ results.failed = Emails(recipients, Len(recipients))

C3_Witness ==
    /\ pc = "returned"
    /\ template.status = "missing"
    /\ i = 2
    /\ ~ret
    /\ results.failed = <<recipients[1].email>>

\* C4: send_bulk_emails calls send_email once for each recipient, in input
\* order, whatever the earlier outcomes: the calls made so far are those for
\* recipients 1, 2, ..., and when it returns every recipient has had one.
C4_OneAttemptEachInOrder ==
    /\ \A k \in DOMAIN attempts : attempts[k] = k
    /\ BetweenRecipients => Len(attempts) = i - 1
    /\ (main_pc = "bulk" /\ pc # "idle") => Len(attempts) = i
    /\ BulkReturned => Len(attempts) = Len(recipients)

C4_Witness ==
    /\ main_pc = "report"
    /\ Len(recipients) >= 2
    /\ results.failed # <<>>
    /\ results.failed[1] = recipients[1].email
    /\ results.success # <<>>
    /\ attempts = [k \in 1..Len(recipients) |-> k]

\* C5: every connection send_email opens is closed before it returns, on
\* every way out; at most one connection is open at any time, and none when
\* send_bulk_emails turns to the next recipient or returns.
C5_ConnectionsClosed ==
    /\ Cardinality(open_conns) <= 1
    /\ pc \in {"idle", "build", "connect", "except", "sent", "returned", "raised"} =>
         open_conns = {}
    /\ pc \in {"starttls", "login", "send", "exit"} =>
         /\ server.connected
         /\ open_conns = {server.id}
    /\ main_pc \in {"report", "done", "failed"} => open_conns = {}

C5_Witness ==
    /\ pc = "returned"
    /\ ~ret
    /\ n_conns = 2
    /\ Did("login", FALSE)
    /\ open_conns = {}

\* C6: with EMAIL_SENDER or EMAIL_PASSWORD unset or empty, constructing
\* CIDEmailSender fails before any SMTP connection is opened and before any
\* send is attempted, and main makes no send attempt.
C6_MissingConfigFailsFirst ==
    (~Truthy(env.EMAIL_SENDER) \/ ~Truthy(env.EMAIL_PASSWORD)) =>
        /\ main_pc \in {"start", "failed"}
        /\ ~sender.constructed
        /\ n_conns = 0
        /\ attempts = <<>>
        /\ main_pc = "failed" => log = Log("ERROR", "Application error")

C6_Witness ==
    /\ main_pc = "failed"
    /\ Truthy(env.EMAIL_SENDER)
    /\ env.EMAIL_PASSWORD = SetTo("")
    /\ IntParses(Getenv(env, "SMTP_PORT", DefaultPort).val)
    /\ recipients # <<>>

\* The template with every {{name}} replaced by name and every {{role}} by
\* role, the values going in as they are: one pass from the left over the
\* template's own text.
RECURSIVE SubstituteBoth(_, _, _)
SubstituteBoth(s, name, role) ==
    IF s = <<>> THEN <<>>
    ELSE IF Len(s) >= Len(NameToken) /\ SubSeq(s, 1, Len(NameToken)) = NameToken
    THEN name \o SubstituteBoth(SubSeq(s, Len(NameToken) + 1, Len(s)), name, role)
    ELSE IF Len(s) >= Len(RoleToken) /\ SubSeq(s, 1, Len(RoleToken)) = RoleToken
    THEN role \o SubstituteBoth(SubSeq(s, Len(RoleToken) + 1, Len(s)), name, role)
    ELSE <<Head(s)>> \o SubstituteBoth(Tail(s), name, role)

\* C7: the HTML body create_email_message builds is the template with every
\* {{name}} replaced by the recipient's name and every {{role}} by the
\* recipient's role, the values inserted verbatim and all other text left as
\* it is.
C7_BodyIsTemplateWithValues ==
    msg.built =>
        msg.html = SubstituteBoth(template.text, recipients[i].name, recipients[i].role)

\* C8: create_email_message signals "template not found" exactly when the
\* template path does not resolve, and the generic construction error for
\* every other fault, a missing image with a readable template included.
C8_TemplateNotFoundIffTemplateMissing ==
    (pc = "except" /\ Did("build", FALSE)) =>
        /\ log.text = "Template file not found" <=> template.status = "missing"
        /\ log.text = "Error creating email message" <=> template.status # "missing"

\* C9: send_email returns True exactly when send_message completed: never
\* True without a completed transmission, never False after one.
C9_TrueIffTransmitted ==
    pc = "returned" => (ret <=> transmitted)

\* C10: within one send_email call the steps come in the order build,
\* connect, STARTTLS, login, send: no login before STARTTLS has succeeded on
\* the connection, no transmission before login has succeeded, and no
\* connection when building the message fails.
C10_StepOrder ==
    /\ \A k \in DOMAIN steps :
         /\ steps[k].step = "connect" =>
              k > 1 /\ steps[k - 1] = [step |-> "build", ok |-> TRUE]
         /\ steps[k].step = "starttls" =>
              k > 1 /\ steps[k - 1] = [step |-> "connect", ok |-> TRUE]
         /\ steps[k].step = "login" =>
              k > 1 /\ steps[k - 1] = [step |-> "starttls", ok |-> TRUE]
         /\ steps[k].step = "send" =>
              k > 1 /\ steps[k - 1] = [step |-> "login", ok |-> TRUE]
         /\ steps[k].step = "build" => k = 1
    /\ pc = "login" => server.tls
    /\ pc = "send" => server.tls /\ server.auth
    /\ transmitted => Did("login", TRUE)
    /\ Did("build", FALSE) => ~Did("connect", TRUE) /\ ~Did("connect", FALSE)
    /\ open_conns # {} => msg.built

C10_Witness ==
    /\ pc = "returned"
    /\ Did("starttls", FALSE)
    /\ ~Did("login", TRUE)
    /\ ~Did("login", FALSE)
    /\ ~ret

====
